---- MODULE Spec2Model ----
(***************************************************************************)
(* State-machine model of Dashboard/sample-data.py: the synthetic GHAS      *)
(* alert data generator.  One run is: seed the two generators, capture      *)
(* `now`, one pass over `repos` (branch simulation, alert expansion or      *)
(* reason classification), DataFrame construction, makedirs, three to_csv.  *)
(* The output directory outlives the process, so a second run of the        *)
(* script over the same directory is part of the model.                     *)
(***************************************************************************)
EXTENDS Integers, Sequences, FiniteSets, TLC

(* ----------------------------- bounds ---------------------------------- *)
\* The catalog under iteration is a window of at most MaxRepos consecutive
\* entries of the `repos` literal (with the template restricted to it).
MaxRepos == 2
\* Number of internal states of each pseudo-random generator.
PrngModulus == 4
\* The capture instants the clock can show, 1..MaxInstant.
MaxInstant == 2

(* ------------------------ the fixture literals -------------------------- *)
org == "sample-org"

ReposLiteral ==
  << <<"Payments", "payments-api">>,
     <<"Payments", "billing-service">>,
     <<"Payments", "invoicing-ui">>,
     <<"CitizenServices", "licensing-portal">>,
     <<"CitizenServices", "case-management">>,
     <<"CitizenServices", "notification-worker">>,
     <<"TransitOps", "route-optimizer">>,
     <<"TransitOps", "vehicle-telemetry">>,
     <<"TransitOps", "ticketing-web">>,
     <<"TransitOps", "ops-tools">>,
     <<"Payments", "data-models">>,
     <<"CitizenServices", "identity-gateway">>,
     <<"CitizenServices", "docs-site">>,
     <<"TransitOps", "mobile-app">>,
     <<"Payments", "terraform-infra">> >>

supported_langs_map ==
  [r \in {ReposLiteral[k][2] : k \in 1..Len(ReposLiteral)} |->
     CASE r = "payments-api"        -> "csharp"
       [] r = "billing-service"     -> "java"
       [] r = "invoicing-ui"        -> "javascript"
       [] r = "licensing-portal"    -> "csharp"
       [] r = "case-management"     -> "python"
       [] r = "notification-worker" -> "python"
       [] r = "route-optimizer"     -> "cpp"
       [] r = "vehicle-telemetry"   -> "go"
       [] r = "ticketing-web"       -> "javascript"
       [] r = "ops-tools"           -> ""
       [] r = "data-models"         -> ""
       [] r = "identity-gateway"    -> "csharp"
       [] r = "docs-site"           -> ""
       [] r = "mobile-app"          -> "swift"
       [] r = "terraform-infra"     -> ""]

has_code_map ==
  [r \in {ReposLiteral[k][2] : k \in 1..Len(ReposLiteral)} |->
     r \notin {"data-models", "docs-site"}]

\* A template is the dict literal in insertion order: a sequence of items.
Counts(c, d, s) ==
  << [key |-> "code", n |-> c], [key |-> "dependency", n |-> d],
     [key |-> "secret", n |-> s] >>

ReposWithAlertsLiteral ==
  ("payments-api"      :> Counts(3, 5, 1)) @@
  ("billing-service"   :> Counts(2, 2, 0)) @@
  ("invoicing-ui"      :> Counts(1, 3, 2)) @@
  ("licensing-portal"  :> Counts(0, 4, 0)) @@
  ("case-management"   :> Counts(4, 1, 1)) @@
  ("vehicle-telemetry" :> Counts(2, 0, 0)) @@
  ("ticketing-web"     :> Counts(0, 2, 1)) @@
  ("identity-gateway"  :> Counts(3, 2, 0)) @@
  ("mobile-app"        :> Counts(1, 1, 0))

severities == <<"critical", "high", "medium", "low">>
SeverityP == <<15, 35, 35, 15>>
states == <<"active", "dismissed", "fixed">>
StateP == <<70, 10, 20>>

Titles ==
  ("code"       :> "CodeQL: Potential SQL injection") @@
  ("dependency" :> "Vulnerable dependency found") @@
  ("secret"     :> "Secret detected in commit history")

outdir == "/mnt/data/ghas-dash"
AlertsCsv == "alerts.csv"
WithCsv == "repos_with_vulnerabilities.csv"
NoCsv == "repos_without_vulnerabilities.csv"
OutFiles == {AlertsCsv, WithCsv, NoCsv}
NoFile == [missing |-> TRUE]

VARIABLES
  repos,              \* the catalog sequence the run iterates
  repos_with_alerts,  \* the alert template
  py_seeded,          \* generator state random.seed(42) produces
  np_seeded,          \* generator state np.random.seed(42) produces
  clock,              \* wall clock of the machine
  run,                \* which execution of the script this is
  pc,                 \* position of the process
  now,
  py_rng, np_rng,     \* current state of the two generators
  repo_i,             \* position of the for loop over repos
  codeql_analyzed, counts, total, sev_counts,
  cat_i,              \* position in counts.items()
  i,                  \* position in range(c)
  alerts_rows, with_rows, no_rows,
  alerts_df, with_df, no_df,
  dir_exists, files   \* the file system under outdir

catalog == <<repos, repos_with_alerts, py_seeded, np_seeded>>
process == <<pc, now, py_rng, np_rng, repo_i, codeql_analyzed, counts, total,
             sev_counts, cat_i, i, alerts_rows, with_rows, no_rows,
             alerts_df, with_df, no_df>>
vars == <<catalog, process, clock, run, dir_exists, files>>


(* --------------------------- pure helpers ------------------------------ *)
HexChar == <<"0", "1", "2", "3", "4", "5", "6", "7",
             "8", "9", "a", "b", "c", "d", "e", "f">>

\* format(n, "0<w>x"): lower-case hexadecimal, zero padded to w digits.
RECURSIVE Hex(_, _)
Hex(n, w) ==
  IF w <= 1 /\ n < 16 THEN HexChar[n + 1]
  ELSE Hex(n \div 16, w - 1) \o HexChar[(n % 16) + 1]

\* One value of the repo_ids comprehension, for the enumerate index n.
RepoIdOf(n) ==
  Hex(n, 8) \o "-" \o Hex(n, 4) \o "-" \o Hex(n, 4) \o "-" \o Hex(n, 4)
    \o "-" \o Hex(n, 12)

\* repo_ids[name]: enumerate(repos, start=1001); a later duplicate would win.
repo_ids(name) ==
  LET k == CHOOSE k \in 1..Len(repos) :
             /\ repos[k][2] = name
             /\ \A m \in (k + 1)..Len(repos) : repos[m][2] # name
  IN RepoIdOf(1000 + k)

\* A generator is a recurrence over PrngModulus internal states; a draw
\* advances it and reads the new state u as the real (2u+1)/(2*PrngModulus).
PrngStep(s) == (5 * s + 3) % PrngModulus

\* random.random() > 0.6
RandomGt60(u) == (2 * u + 1) * 10 > 12 * PrngModulus

\* random.randint(a, b), both ends included
RandInt(a, b, u) == a + ((2 * u + 1) * (b - a + 1)) \div (2 * PrngModulus)

RECURSIVE CumSum(_, _)
CumSum(p, k) == IF k = 0 THEN 0 ELSE CumSum(p, k - 1) + p[k]

\* np.random.choice(outcomes, p=p): first index whose cumulative
\* probability exceeds the uniform draw.
Choice(outcomes, p, u) ==
  LET k == CHOOSE k \in 1..Len(p) :
             /\ CumSum(p, k) * 2 * PrngModulus > (2 * u + 1) * 100
             /\ \A m \in 1..(k - 1) :
                  CumSum(p, m) * 2 * PrngModulus <= (2 * u + 1) * 100
  IN outcomes[k]

\* datetime.isoformat() of an instant (instants are counted in days)
IsoFormat(t) == ToString(t)

\* ','.join(list)
RECURSIVE Join(_)
Join(list) ==
  IF list = <<>> THEN ""
  ELSE IF Len(list) = 1 THEN list[1]
  ELSE list[1] \o "," \o Join(Tail(list))

\* sum(counts.values())
RECURSIVE SumValues(_)
SumValues(items) ==
  IF items = <<>> THEN 0 ELSE items[1].n + SumValues(Tail(items))

\* key in counts / counts[key] on the item sequence of a dict
HasKey(items, key) == \E k \in 1..Len(items) : items[k].key = key
Get(items, key) == items[CHOOSE k \in 1..Len(items) : items[k].key = key].n

\* What sev_counts holds while the name is not bound by the current run.
NoSevCounts == [s \in {severities[k] : k \in 1..Len(severities)} |-> 0]

\* Mutant: the dict is created once and not again for each repository.
KeepSevCounts(old) == old

\* {k:0 for k in severities}; `old` is the binding being replaced
ZeroSevCounts(old) ==
  [s \in {severities[k] : k \in 1..Len(severities)} |-> 0]

\* Mutant: `= 1` written for `+= 1`.
TallyOverwrite(sc, sev) == [sc EXCEPT ![sev] = 1]

\* sev_counts[sev] += 1
Tally(sc, sev) == [sc EXCEPT ![sev] = @ + 1]

\* Mutant: range(1, c) written for range(c).
RangeLenFromOne(c) == IF c > 1 THEN c - 1 ELSE 0

\* the iterations range(c) makes
RangeLen(c) == IF c > 0 THEN c ELSE 0

\* Mutant: the branch is taken on the code count instead of on membership.
HasCodeAlerts(repo) ==
  /\ repo \in DOMAIN repos_with_alerts
  /\ HasKey(repos_with_alerts[repo], "code")
  /\ Get(repos_with_alerts[repo], "code") > 0

\* repo in repos_with_alerts
HasTemplate(repo) == repo \in DOMAIN repos_with_alerts

\* Mutant: `or` written for `and` on line 97.
CodeqlAnalyzedOr(has_code, supported, u) ==
  IF has_code \/ supported # ""
    THEN IF RandomGt60(u) THEN <<"main", "release">> ELSE <<"main">>
    ELSE <<>>

\* lines 96-100
CodeqlAnalyzed(has_code, supported, u) ==
  IF has_code /\ supported # ""
    THEN IF RandomGt60(u) THEN <<"main", "release">> ELSE <<"main">>
    ELSE <<>>

\* Mutant: the language test is made before the code test.
ReasonOfLanguageFirst(has_code, supported) ==
  IF supported = "" THEN "UnsupportedLanguage"
  ELSE IF ~has_code THEN "NoCode"
  ELSE "NoAlerts"

\* lines 154-160
ReasonOf(has_code, supported) ==
  IF ~has_code THEN "NoCode"
  ELSE IF supported = "" THEN "UnsupportedLanguage"
  ELSE "NoAlerts"

\* Mutant: insert(0, row) written for append(row).
ListPrepend(rows, row) == <<row>> \o rows

\* list.append
ListAppend(rows, row) == Append(rows, row)


(* ------------------------------ rows ----------------------------------- *)
AlertColumns ==
  <<"Organization", "Project", "Repository", "RepositoryId", "AlertId",
    "AlertType", "Severity", "State", "Title", "RuleId", "RuleName",
    "RepoUrl", "FirstSeen", "LastSeen">>
WithColumns ==
  <<"Organization", "Project", "Repository", "RepositoryId", "DefaultBranch",
    "SupportedLangs", "HasAnyCode", "CodeQLAnalyzedBranches", "Alerts_Total",
    "Alerts_Code", "Alerts_Dependency", "Alerts_Secret", "Sev_Critical",
    "Sev_High", "Sev_Medium", "Sev_Low">>
NoColumns ==
  <<"Organization", "Project", "Repository", "RepositoryId", "DefaultBranch",
    "SupportedLangs", "HasAnyCode", "CodeQLAnalyzedBranches", "Reason">>

\* lines 117-132
AlertRow(proj, repo, rid, aid, t, sev, state, title, days, t_now) ==
  [Organization |-> org, Project |-> proj, Repository |-> repo,
   RepositoryId |-> rid, AlertId |-> aid, AlertType |-> t, Severity |-> sev,
   State |-> state, Title |-> title, RuleId |-> "ghas-" \o t,
   RuleName |-> title,
   RepoUrl |-> "https://dev.azure.com/" \o org \o "/" \o proj \o "/_git/"
                 \o repo,
   FirstSeen |-> IsoFormat(t_now - days), LastSeen |-> IsoFormat(t_now)]

\* lines 134-151
WithRow(proj, repo, rid, supported, has_code, analyzed, tot, cnt, sc) ==
  [Organization |-> org, Project |-> proj, Repository |-> repo,
   RepositoryId |-> rid, DefaultBranch |-> "main",
   SupportedLangs |-> supported, HasAnyCode |-> has_code,
   CodeQLAnalyzedBranches |-> Join(analyzed), Alerts_Total |-> tot,
   Alerts_Code |-> Get(cnt, "code"),
   Alerts_Dependency |-> Get(cnt, "dependency"),
   Alerts_Secret |-> Get(cnt, "secret"),
   Sev_Critical |-> sc["critical"], Sev_High |-> sc["high"],
   Sev_Medium |-> sc["medium"], Sev_Low |-> sc["low"]]

\* lines 161-171
NoRow(proj, repo, rid, supported, has_code, analyzed, reason) ==
  [Organization |-> org, Project |-> proj, Repository |-> repo,
   RepositoryId |-> rid, DefaultBranch |-> "main",
   SupportedLangs |-> supported, HasAnyCode |-> has_code,
   CodeQLAnalyzedBranches |-> Join(analyzed), Reason |-> reason]

\* pd.DataFrame(list of dicts): the columns are the keys of the rows, so a
\* frame built from an empty list has no columns.
DataFrame(rows, columns) ==
  [columns |-> IF rows = <<>> THEN <<>> ELSE columns, rows |-> rows]

\* One field as to_csv writes it.
CsvField(col, v) ==
  IF col \in {"AlertId", "Alerts_Total", "Alerts_Code", "Alerts_Dependency",
              "Alerts_Secret", "Sev_Critical", "Sev_High", "Sev_Medium",
              "Sev_Low"}
    THEN ToString(v)
  ELSE IF col = "HasAnyCode" THEN (IF v THEN "True" ELSE "False")
  ELSE IF v = "main,release" THEN "\"main,release\""
  ELSE v

\* df.to_csv(path, index=False): the header line, then the rows in frame order.
ToCsv(df) ==
  [header |-> df.columns,
   lines  |-> [k \in 1..Len(df.rows) |->
                 [c \in 1..Len(df.columns) |->
                    CsvField(df.columns[c], df.rows[k][df.columns[c]])]]]

(* --------------------------- initial states ---------------------------- *)
\* The values the names of the script have before their first assignment.
Unset ==
  /\ now = 0
  /\ py_rng = 0 /\ np_rng = 0
  /\ repo_i = 0
  /\ codeql_analyzed = <<>> /\ counts = <<>> /\ total = 0
  /\ sev_counts = NoSevCounts
  /\ cat_i = 0 /\ i = 0
  /\ alerts_rows = <<>> /\ with_rows = <<>> /\ no_rows = <<>>
  /\ alerts_df = DataFrame(<<>>, <<>>)
  /\ with_df = DataFrame(<<>>, <<>>)
  /\ no_df = DataFrame(<<>>, <<>>)

\* A window of the repos literal and the template restricted to it.
Window(first, len) == SubSeq(ReposLiteral, first, first + len - 1)
NamesOf(seq) == {seq[k][2] : k \in 1..Len(seq)}
Restrict(f, S) == [x \in (DOMAIN f) \cap S |-> f[x]]

Environment ==
  /\ py_seeded \in 0..(PrngModulus - 1)
  /\ np_seeded \in 0..(PrngModulus - 1)
  /\ clock = 1
  /\ run = 1
  /\ pc = "start"
  /\ dir_exists \in BOOLEAN
  /\ files = [f \in OutFiles |-> NoFile]
  /\ Unset

Init ==
  /\ \E len \in 1..MaxRepos : \E first \in 1..(Len(ReposLiteral) - len + 1) :
       /\ repos = Window(first, len)
       /\ repos_with_alerts =
            Restrict(ReposWithAlertsLiteral, NamesOf(Window(first, len)))
  /\ Environment

\* The three defects a hand-edited catalog can carry: a negative count, a
\* category key outside the three known ones, a template entry for a
\* repository that is not in the catalog sequence.
WithCount(items, k, c) == [items EXCEPT ![k] = [key |-> items[k].key, n |-> c]]
WithKey(items, k, name) == [items EXCEPT ![k] = [key |-> name, n |-> items[k].n]]

InitDefect ==
  /\ \E len \in 1..MaxRepos : \E first \in 1..(Len(ReposLiteral) - len + 1) :
       LET w == Window(first, len)
           t == Restrict(ReposWithAlertsLiteral, NamesOf(w))
       IN /\ repos = w
          /\ \/ \E r \in DOMAIN t : \E k \in 1..Len(t[r]) :
                  repos_with_alerts = [t EXCEPT ![r] = WithCount(t[r], k, -1)]
             \/ \E r \in DOMAIN t : \E k \in 1..Len(t[r]) :
                  repos_with_alerts =
                    [t EXCEPT ![r] = WithKey(t[r], k, "container")]
             \/ /\ first + len <= Len(ReposLiteral)
                /\ ReposLiteral[first + len][2]
                     \in DOMAIN ReposWithAlertsLiteral
                /\ repos_with_alerts =
                     Restrict(ReposWithAlertsLiteral,
                              NamesOf(w) \cup {ReposLiteral[first + len][2]})
  /\ Environment

(* ------------------------------ actions -------------------------------- *)
\* lines 6-87: seed both generators, empty lists, capture the instant.
Start ==
  /\ pc = "start"
  /\ py_rng' = py_seeded
  /\ np_rng' = np_seeded
  /\ alerts_rows' = <<>> /\ with_rows' = <<>> /\ no_rows' = <<>>
  /\ \E t \in clock..MaxInstant : now' = t /\ clock' = t
  /\ repo_i' = 1
  /\ pc' = "loop"
  /\ UNCHANGED <<catalog, run, codeql_analyzed, counts, total, sev_counts,
                 cat_i, i, alerts_df, with_df, no_df, dir_exists, files>>

\* The repository the for loop is at.
Proj == repos[repo_i][1]
Repo == repos[repo_i][2]
Eligible == has_code_map[Repo] /\ supported_langs_map[Repo] # ""

\* lines 89-100, shared by both branches of line 102: the coin is drawn
\* only when the repository has code in a supported language.
SimulateBranches ==
  /\ py_rng' = IF Eligible THEN PrngStep(py_rng) ELSE py_rng
  /\ codeql_analyzed' =
       CodeqlAnalyzed(has_code_map[Repo], supported_langs_map[Repo],
                      PrngStep(py_rng))

\* lines 89-106: a repository of the template.
VisitWithAlerts ==
  /\ pc = "loop" /\ repo_i <= Len(repos)
  /\ HasTemplate(Repo)
  /\ SimulateBranches
  /\ counts' = repos_with_alerts[Repo]
  /\ total' = SumValues(repos_with_alerts[Repo])
  /\ sev_counts' = ZeroSevCounts(sev_counts)
  /\ cat_i' = 1 /\ i' = 0
  /\ pc' = "expand"
  /\ UNCHANGED <<catalog, clock, run, now, np_rng, repo_i, alerts_rows,
                 with_rows, no_rows, alerts_df, with_df, no_df, dir_exists,
                 files>>

\* lines 108-133: one iteration of `for i in range(c)`.  The severity is
\* drawn and tallied and the alert id drawn before the title lookup, which
\* raises KeyError for a category without a title.
SynthAlert ==
  /\ pc = "expand" /\ cat_i <= Len(counts)
  /\ i < RangeLen(counts[cat_i].n)
  /\ LET t     == counts[cat_i].key
         np1   == PrngStep(np_rng)
         np2   == PrngStep(np1)
         py1   == PrngStep(py_rng)
         py2   == PrngStep(py1)
         sev   == Choice(severities, SeverityP, np1)
         aid   == RandInt(100000, 999999, py1)
         state == Choice(states, StateP, np2)
         days  == RandInt(5, 90, py2)
     IN /\ sev_counts' = Tally(sev_counts, sev)
        /\ IF t \in DOMAIN Titles
             THEN /\ alerts_rows' =
                       ListAppend(alerts_rows,
                                  AlertRow(Proj, Repo, repo_ids(Repo), aid, t,
                                           sev, state, Titles[t], days, now))
                  /\ np_rng' = np2 /\ py_rng' = py2
                  /\ i' = i + 1
                  /\ pc' = "expand"
             ELSE /\ np_rng' = np1 /\ py_rng' = py1
                  /\ pc' = "error"
                  /\ UNCHANGED <<alerts_rows, i>>
  /\ UNCHANGED <<catalog, clock, run, now, repo_i, codeql_analyzed, counts,
                 total, cat_i, with_rows, no_rows, alerts_df, with_df, no_df,
                 dir_exists, files>>

\* line 107: range(c) is exhausted, on to the next item of counts.
NextCategory ==
  /\ pc = "expand" /\ cat_i <= Len(counts)
  /\ i >= RangeLen(counts[cat_i].n)
  /\ cat_i' = cat_i + 1 /\ i' = 0
  /\ UNCHANGED <<catalog, clock, run, pc, now, py_rng, np_rng, repo_i,
                 codeql_analyzed, counts, total, sev_counts, alerts_rows,
                 with_rows, no_rows, alerts_df, with_df, no_df, dir_exists,
                 files>>

\* lines 134-151: the summary row; counts['code'] and its siblings raise
\* KeyError when the template lacks the key.
SummaryRow ==
  /\ pc = "expand" /\ cat_i > Len(counts)
  /\ IF \A key \in {"code", "dependency", "secret"} : HasKey(counts, key)
       THEN /\ with_rows' =
                 ListAppend(with_rows,
                            WithRow(Proj, Repo, repo_ids(Repo),
                                    supported_langs_map[Repo],
                                    has_code_map[Repo], codeql_analyzed,
                                    total, counts, sev_counts))
            /\ repo_i' = repo_i + 1
            /\ pc' = "loop"
       ELSE /\ pc' = "error"
            /\ UNCHANGED <<with_rows, repo_i>>
  /\ UNCHANGED <<catalog, clock, run, now, py_rng, np_rng, codeql_analyzed,
                 counts, total, sev_counts, cat_i, i, alerts_rows, no_rows,
                 alerts_df, with_df, no_df, dir_exists, files>>

\* lines 89-100 and 152-171: a repository outside the template.
VisitWithout ==
  /\ pc = "loop" /\ repo_i <= Len(repos)
  /\ ~HasTemplate(Repo)
  /\ SimulateBranches
  /\ no_rows' =
       ListAppend(no_rows,
                  NoRow(Proj, Repo, repo_ids(Repo), supported_langs_map[Repo],
                        has_code_map[Repo], codeql_analyzed',
                        ReasonOf(has_code_map[Repo],
                                 supported_langs_map[Repo])))
  /\ repo_i' = repo_i + 1
  /\ UNCHANGED <<catalog, clock, run, pc, now, np_rng, counts, total,
                 sev_counts, cat_i, i, alerts_rows, with_rows, alerts_df,
                 with_df, no_df, dir_exists, files>>

\* lines 173-175
BuildFrames ==
  /\ pc = "loop" /\ repo_i > Len(repos)
  /\ alerts_df' = DataFrame(alerts_rows, AlertColumns)
  /\ with_df' = DataFrame(with_rows, WithColumns)
  /\ no_df' = DataFrame(no_rows, NoColumns)
  /\ pc' = "makedirs"
  /\ UNCHANGED <<catalog, clock, run, now, py_rng, np_rng, repo_i,
                 codeql_analyzed, counts, total, sev_counts, cat_i, i,
                 alerts_rows, with_rows, no_rows, dir_exists, files>>

frames == <<alerts_df, with_df, no_df>>
loopvars == <<now, py_rng, np_rng, repo_i, codeql_analyzed, counts, total,
              sev_counts, cat_i, i, alerts_rows, with_rows, no_rows>>

\* lines 177-178: os.makedirs(outdir, exist_ok=True)
MakeDirs ==
  /\ pc = "makedirs"
  /\ dir_exists' = TRUE
  /\ pc' = "to_csv_alerts"
  /\ UNCHANGED <<catalog, clock, run, loopvars, frames, files>>

\* line 178 raising OSError: the directory is absent and cannot be created.
MakeDirsFails ==
  /\ pc = "makedirs" /\ ~dir_exists
  /\ pc' = "error"
  /\ UNCHANGED <<catalog, clock, run, loopvars, frames, dir_exists, files>>

WriteCsv(at, name, df, next) ==
  /\ pc = at
  /\ files' = [files EXCEPT ![name] = ToCsv(df)]
  /\ pc' = next
  /\ UNCHANGED <<catalog, clock, run, loopvars, frames, dir_exists>>

\* line 179
WriteAlerts == WriteCsv("to_csv_alerts", AlertsCsv, alerts_df, "to_csv_with")
\* line 180
WriteWith == WriteCsv("to_csv_with", WithCsv, with_df, "to_csv_no")
\* line 181
WriteNo == WriteCsv("to_csv_no", NoCsv, no_df, "done")

\* lines 179-181: a to_csv call raising OSError; nothing catches it, the
\* files written by the earlier calls stay.
ToCsvFails ==
  /\ pc \in {"to_csv_alerts", "to_csv_with", "to_csv_no"}
  /\ pc' = "error"
  /\ UNCHANGED <<catalog, clock, run, loopvars, frames, dir_exists, files>>

\* The script is executed again over the same output directory: a new
\* process, the file system as the first run left it.
Rerun ==
  /\ pc \in {"done", "error"} /\ run = 1
  /\ run' = 2
  /\ pc' = "start"
  /\ now' = 0
  /\ py_rng' = 0 /\ np_rng' = 0
  /\ repo_i' = 0
  /\ codeql_analyzed' = <<>> /\ counts' = <<>> /\ total' = 0
  /\ sev_counts' = NoSevCounts
  /\ cat_i' = 0 /\ i' = 0
  /\ alerts_rows' = <<>> /\ with_rows' = <<>> /\ no_rows' = <<>>
  /\ alerts_df' = DataFrame(<<>>, <<>>)
  /\ with_df' = DataFrame(<<>>, <<>>)
  /\ no_df' = DataFrame(<<>>, <<>>)
  /\ UNCHANGED <<catalog, clock, dir_exists, files>>

Next ==
  \/ Start
  \/ VisitWithAlerts
  \/ SynthAlert
  \/ NextCategory
  \/ SummaryRow
  \/ VisitWithout
  \/ BuildFrames
  \/ MakeDirs
  \/ MakeDirsFails
  \/ WriteAlerts
  \/ WriteWith
  \/ WriteNo
  \/ ToCsvFails
  \/ Rerun

Spec == Init /\ [][Next]_vars

\* The same program over a catalog that carries one defect.
SpecDefect == InitDefect /\ [][Next]_vars


(* ------------------------ the checked properties ----------------------- *)
Categories == {"code", "dependency", "secret"}
RowsOf(rows, R) == {j \in 1..Len(rows) : rows[j].Repository = R}
AfterPass == repo_i > Len(repos)
Pos(R) == CHOOSE k \in 1..Len(repos) : repos[k][2] = R
CatPos(R, t) ==
  CHOOSE k \in 1..Len(repos_with_alerts[R]) : repos_with_alerts[R][k].key = t
Written == {f \in OutFiles : files[f] # NoFile}

\* C1 (partition): once the pass over the catalog is over, every repository
\* of the catalog has exactly one summary row, in the with-alerts table or in
\* the without-alerts table, and it is in the with-alerts table exactly when
\* it is a key of the alert template.
PartitionInvariant ==
  AfterPass =>
    \A R \in NamesOf(repos) :
      /\ Cardinality(RowsOf(with_rows, R)) + Cardinality(RowsOf(no_rows, R)) = 1
      /\ RowsOf(with_rows, R) # {} <=> R \in DOMAIN repos_with_alerts

PartitionWitness ==
  /\ AfterPass
  /\ with_rows # <<>> /\ no_rows # <<>>
  /\ Len(with_rows) + Len(no_rows) = Len(repos)

\* C2 (alert cardinality): once the pass is over, the number of alert rows of
\* a repository and a category is the template count of that pair, none for
\* a repository outside the template; billing-service has four alert rows.
AlertCardinality ==
  AfterPass =>
    /\ \A R \in NamesOf(repos) : \A t \in Categories :
         Cardinality({j \in RowsOf(alerts_rows, R) :
                        alerts_rows[j].AlertType = t})
           = IF R \in DOMAIN repos_with_alerts
               THEN Get(repos_with_alerts[R], t) ELSE 0
    /\ \A j \in 1..Len(alerts_rows) :
         /\ alerts_rows[j].Repository \in DOMAIN repos_with_alerts
         /\ alerts_rows[j].AlertType \in Categories
    /\ "billing-service" \in NamesOf(repos) =>
         Cardinality(RowsOf(alerts_rows, "billing-service")) = 4

AlertCardinalityWitness ==
  /\ AfterPass
  /\ Cardinality(RowsOf(alerts_rows, "billing-service")) = 4
  /\ \E j \in 1..Len(with_rows) :
       /\ with_rows[j].Repository = "billing-service"
       /\ with_rows[j].Alerts_Secret = 0

\* C3 (count conservation): in every with-alerts summary row the total is
\* the sum of the three category counts and the sum of the four severity
\* counts.
CountConservation ==
  \A j \in 1..Len(with_rows) :
    LET r == with_rows[j]
    IN /\ r.Alerts_Total
            = r.Alerts_Code + r.Alerts_Dependency + r.Alerts_Secret
       /\ r.Alerts_Total
            = r.Sev_Critical + r.Sev_High + r.Sev_Medium + r.Sev_Low

CountConservationWitness ==
  \E j \in 1..Len(with_rows) :
    /\ with_rows[j].Alerts_Total >= 4
    /\ with_rows[j].Sev_High >= 2
    /\ with_rows[j].Sev_Low >= 1

\* C4 (reason correctness): the Reason of a without-alerts row is NoCode
\* when the repository has no code, whatever its language, else
\* UnsupportedLanguage when its language is empty, else NoAlerts; docs-site
\* gets NoCode and ops-tools gets UnsupportedLanguage.
ReasonCorrectness ==
  \A j \in 1..Len(no_rows) :
    LET r == no_rows[j]
        R == r.Repository
    IN /\ R \notin DOMAIN repos_with_alerts
       /\ ~has_code_map[R] => r.Reason = "NoCode"
       /\ has_code_map[R] /\ supported_langs_map[R] = ""
            => r.Reason = "UnsupportedLanguage"
       /\ has_code_map[R] /\ supported_langs_map[R] # ""
            => r.Reason = "NoAlerts"
       /\ R = "docs-site" => r.Reason = "NoCode"
       /\ R = "ops-tools" => r.Reason = "UnsupportedLanguage"

ReasonCorrectnessWitness ==
  /\ \E j \in 1..Len(no_rows) :
       /\ no_rows[j].Repository = "ops-tools"
       /\ no_rows[j].Reason = "UnsupportedLanguage"
  /\ \E j \in 1..Len(no_rows) :
       /\ ~no_rows[j].HasAnyCode
       /\ no_rows[j].SupportedLangs = ""
       /\ no_rows[j].Reason = "NoCode"

\* C5 (branch gating): in every summary row CodeQLAnalyzedBranches is one of
\* "", "main", "main,release", and it is non-empty exactly when the
\* repository has code and a non-empty supported language; the list it is
\* joined from starts with main.
BranchGating ==
  /\ codeql_analyzed # <<>> => codeql_analyzed[1] = "main"
  /\ \A rows \in {with_rows, no_rows} : \A j \in 1..Len(rows) :
       /\ rows[j].CodeQLAnalyzedBranches \in {"", "main", "main,release"}
       /\ rows[j].CodeQLAnalyzedBranches # ""
            <=> (rows[j].HasAnyCode /\ rows[j].SupportedLangs # "")
       /\ rows[j].HasAnyCode = has_code_map[rows[j].Repository]
       /\ rows[j].SupportedLangs = supported_langs_map[rows[j].Repository]

BranchGatingWitness ==
  /\ \E j \in 1..Len(no_rows) :
       /\ no_rows[j].HasAnyCode /\ no_rows[j].CodeQLAnalyzedBranches = ""
  /\ \E j \in 1..Len(with_rows) :
       with_rows[j].CodeQLAnalyzedBranches = "main,release"

\* C6 (determinism): the seed and the catalog being the same, the second run
\* writes every file with the bytes the first run wrote, so no write of the
\* second run changes a file the first run left.
Determinism ==
  [][run = 2 =>
       \A f \in OutFiles : files[f] # NoFile => files'[f] = files[f]]_vars

\* C7 (all-or-nothing export): a run that has ended, normally or by an
\* error, leaves all three files in the output directory or none of them.
AllOrNothing ==
  pc \in {"done", "error"} => (Written = {} \/ Written = OutFiles)

\* The catalog carries one of the defects of a hand-edited fixture.
Malformed ==
  \/ \E R \in DOMAIN repos_with_alerts : R \notin NamesOf(repos)
  \/ \E R \in DOMAIN repos_with_alerts :
       \E k \in 1..Len(repos_with_alerts[R]) :
         \/ repos_with_alerts[R][k].n < 0
         \/ repos_with_alerts[R][k].key \notin Categories

\* C8 (fail fast): with a negative count, a category key outside code,
\* dependency and secret, or a template entry for a repository outside the
\* catalog sequence, the run never builds a table or writes a file and does
\* not end normally.
FailFast ==
  Malformed =>
    /\ Written = {}
    /\ pc \notin {"makedirs", "to_csv_alerts", "to_csv_with", "to_csv_no",
                  "done"}

\* Every table is in catalog order, in the lists, the frames and the files.
InCatalogOrder ==
  /\ \A rows \in {with_rows, no_rows} : \A j, k \in 1..Len(rows) :
       j < k => Pos(rows[j].Repository) < Pos(rows[k].Repository)
  /\ \A j, k \in 1..Len(alerts_rows) :
       j < k =>
         /\ Pos(alerts_rows[j].Repository) <= Pos(alerts_rows[k].Repository)
         /\ alerts_rows[j].Repository = alerts_rows[k].Repository =>
              CatPos(alerts_rows[j].Repository, alerts_rows[j].AlertType)
                <= CatPos(alerts_rows[k].Repository, alerts_rows[k].AlertType)
  /\ pc \in {"makedirs", "to_csv_alerts", "to_csv_with", "to_csv_no", "done"}
       => /\ alerts_df.rows = alerts_rows
          /\ with_df.rows = with_rows
          /\ no_df.rows = no_rows
  /\ pc = "done" =>
       /\ Len(files[AlertsCsv].lines) = Len(alerts_rows)
       /\ Len(files[WithCsv].lines) = Len(with_rows)
       /\ Len(files[NoCsv].lines) = Len(no_rows)
       /\ \A k \in 1..Len(alerts_rows) :
            /\ files[AlertsCsv].lines[k][3] = alerts_rows[k].Repository
            /\ files[AlertsCsv].lines[k][5] = ToString(alerts_rows[k].AlertId)
       /\ \A k \in 1..Len(with_rows) :
            files[WithCsv].lines[k][3] = with_rows[k].Repository
       /\ \A k \in 1..Len(no_rows) :
            files[NoCsv].lines[k][3] = no_rows[k].Repository

\* A step leaves a list alone, empties it, or adds one row at its end.
GrowsAtEnd(rows, rows2) ==
  \/ rows2 = rows
  \/ rows2 = <<>>
  \/ /\ Len(rows2) = Len(rows) + 1
     /\ SubSeq(rows2, 1, Len(rows)) = rows

\* C9 (row order): the rows of each table are in catalog order, the alert
\* rows of one repository in the category order of its template, the frames
\* and the files keep that order, and a table grows only by one row at its
\* end, the alert row of the current loop index.
RowOrder ==
  /\ []InCatalogOrder
  /\ [][/\ GrowsAtEnd(alerts_rows, alerts_rows')
        /\ GrowsAtEnd(with_rows, with_rows')
        /\ GrowsAtEnd(no_rows, no_rows')
        /\ Len(alerts_rows') > Len(alerts_rows) =>
             /\ i' = i + 1
             /\ alerts_rows'[Len(alerts_rows')].Repository = Repo
             /\ alerts_rows'[Len(alerts_rows')].AlertType = counts[cat_i].key
       ]_vars

RowOrderWitness ==
  /\ pc = "done"
  /\ Len(with_rows) >= 2
  /\ \E j, k \in 1..Len(alerts_rows) :
       /\ j < k
       /\ alerts_rows[j].Repository = alerts_rows[k].Repository
       /\ alerts_rows[j].AlertType # alerts_rows[k].AlertType
  /\ \E j, k \in 1..Len(alerts_rows) :
       /\ j < k
       /\ alerts_rows[j].Repository = alerts_rows[k].Repository
       /\ alerts_rows[j].AlertType = alerts_rows[k].AlertType
       /\ alerts_rows[j].AlertId # alerts_rows[k].AlertId

\* The four Sev_ columns of a summary row, by severity.
SevOf(r) ==
  ("critical" :> r.Sev_Critical) @@ ("high" :> r.Sev_High) @@
  ("medium" :> r.Sev_Medium) @@ ("low" :> r.Sev_Low)

\* C10 (per-repository tally): in every with-alerts summary row each Sev_
\* column is the number of alert rows of that repository with that severity,
\* so it counts no alert of an earlier repository.
PerRepositoryTally ==
  \A j \in 1..Len(with_rows) : \A s \in DOMAIN SevOf(with_rows[j]) :
    SevOf(with_rows[j])[s]
      = Cardinality({k \in RowsOf(alerts_rows, with_rows[j].Repository) :
                       alerts_rows[k].Severity = s})

PerRepositoryTallyWitness ==
  /\ Len(with_rows) = 2
  /\ with_rows[1].Alerts_Total > 0
  /\ with_rows[2].Alerts_Total > 0
  /\ \E s \in {"critical", "high", "medium", "low"} :
       SevOf(with_rows[1])[s] > 0 /\ SevOf(with_rows[2])[s] > 0

====
